---- MODULE Spec2Model ----
(***************************************************************************)
(* BulkExtractorTask (turbinia/workers/bulk_extractor.py).                 *)
(*                                                                         *)
(* run(evidence, result) is modelled as a sequential state machine, one    *)
(* action per statement group, and generate_summary_report as a pure       *)
(* operator of the contents of the output directory.                       *)
(*                                                                         *)
(* Representation                                                          *)
(*   - a path is the sequence of its components;                           *)
(*   - the text of an XML element is a sequence of string pieces, the      *)
(*     empty sequence standing for Python's None (ElementTree gives an     *)
(*     element without text the text None);                                *)
(*   - xml.find(path) yields a record [found, text];                       *)
(*   - the feature_files element is [found, elems], elems being the        *)
(*     elements below it in document order (what Element.iter() yields     *)
(*     after the element itself);                                          *)
(*   - an exception is a record [type, msg]; type "" means no exception.   *)
(***************************************************************************)
EXTENDS Integers, Sequences, FiniteSets, TLC

\* Longest scanner section of arbitrary shape.
MaxElems == 4
\* Most (feature_file, name, count) records of a well-formed scanner section.
MaxRecords == 3

-----------------------------------------------------------------------------
(* Python values *)

\* None, where a string attribute is expected.
None == "<None>"
\* None, where a path is expected.
NoPath == <<>>
\* Element.text of an element that has no text.
NoText == <<>>
NoException == [type |-> "", msg |-> ""]

Digits == {"0", "1", "2", "3", "4", "5", "6", "7", "8", "9"}

DigitVal(c) ==
  CASE c = "0" -> 0 [] c = "1" -> 1 [] c = "2" -> 2 [] c = "3" -> 3
    [] c = "4" -> 4 [] c = "5" -> 5 [] c = "6" -> 6 [] c = "7" -> 7
    [] c = "8" -> 8 [] c = "9" -> 9

RECURSIVE Concat(_)
Concat(pieces) ==
  IF pieces = <<>> THEN "" ELSE Head(pieces) \o Concat(Tail(pieces))

\* '{0}'.format(text): the text itself, or 'None'.
Str(text) == IF text = NoText THEN "None" ELSE Concat(text)

\* Whether int(text) succeeds, for a text that is not None.
IsInt(text) == text # NoText /\ \A i \in 1..Len(text) : text[i] \in Digits

RECURSIVE IntOf(_, _)
IntOf(text, acc) ==
  IF text = <<>> THEN acc
  ELSE IntOf(Tail(text), 10 * acc + DigitVal(Head(text)))

\* int(text), for a text of decimal digits.
ParseInt(text) == IntOf(text, 0)

\* os.path.basename
Basename(path) == IF path = <<>> THEN "" ELSE path[Len(path)]

\* os.path.join(directory, name)
PathJoin(directory, name) == Append(directory, name)

RECURSIVE JoinLines(_)
\* '\n'.join(lines)
JoinLines(lines) ==
  IF lines = <<>> THEN ""
  ELSE IF Len(lines) = 1 THEN lines[1]
  ELSE lines[1] \o "\n" \o JoinLines(Tail(lines))

-----------------------------------------------------------------------------
(* turbinia.lib.text_formatter *)

heading4(text) == "#### " \o text
heading5(text) == "##### " \o text
bullet(text) == "* " \o text

-----------------------------------------------------------------------------
(* The output directory of the external tool *)

MetaPaths ==
  { "creator/program", "creator/version",
    "creator/execution_environment/command_line",
    "creator/execution_environment/start_time",
    "report/elapsed_seconds" }

NotFound == [found |-> FALSE, text |-> NoText]

MetaText(path) ==
  CASE path = "creator/program" -> <<"BULK_EXTRACTOR">>
    [] path = "creator/version" -> <<"1.6.0">>
    [] path = "creator/execution_environment/command_line" ->
         <<"bulk_extractor in -o out">>
    [] path = "creator/execution_environment/start_time" ->
         <<"2020-01-01T00:00:00Z">>
    [] path = "report/elapsed_seconds" -> <<"4", "2">>

\* Each metadata element is there, with its text, or is not.
MetaFields ==
  { f \in [MetaPaths -> {NotFound} \cup
                        {[found |-> TRUE, text |-> MetaText(p)] : p \in MetaPaths}] :
      \A p \in MetaPaths : f[p].found => f[p].text = MetaText(p) }

FullMeta == [p \in MetaPaths |-> [found |-> TRUE, text |-> MetaText(p)]]

Marker == [tag |-> "feature_file", text |-> NoText]
NameTexts == { <<"email">>, <<"url">> }
IntTexts == { <<"5">>, <<"1", "0">> }
CountTexts == IntTexts \cup { <<"x">> }

ElemAlphabet ==
  {Marker} \cup {[tag |-> "name", text |-> t] : t \in NameTexts}
           \cup {[tag |-> "count", text |-> t] : t \in CountTexts}

SeqsUpTo(S, n) == UNION {[1..k -> S] : k \in 0..n}

ScannerRecords == [name : NameTexts, count : IntTexts]

RECURSIVE Flatten(_)
\* The elements of a section made of whole records, in document order.
Flatten(records) ==
  IF records = <<>> THEN <<>>
  ELSE << Marker,
          [tag |-> "name", text |-> Head(records).name],
          [tag |-> "count", text |-> Head(records).count] >>
       \o Flatten(Tail(records))

NoSection == [found |-> FALSE, elems |-> <<>>]

Sections ==
  {NoSection}
    \cup {[found |-> TRUE, elems |-> e] : e \in SeqsUpTo(ElemAlphabet, MaxElems)}
    \cup {[found |-> TRUE, elems |-> Flatten(r)] :
            r \in SeqsUpTo(ScannerRecords, MaxRecords)}

\* Sections tried together with every combination of missing metadata.
SampleSections ==
  { NoSection,
    [found |-> TRUE, elems |-> <<>>],
    [found |-> TRUE, elems |-> Flatten(<<[name |-> <<"email">>, count |-> <<"5">>]>>)],
    [found |-> TRUE, elems |-> <<Marker>>] }

Documents ==
  {[fields |-> f, feature_files |-> s] : f \in MetaFields, s \in SampleSections}
    \cup {[fields |-> FullMeta, feature_files |-> s] : s \in Sections}

NoDocument == [fields |-> [p \in MetaPaths |-> NotFound], feature_files |-> NoSection]

\* What the output directory holds: no report.xml, a report.xml that is not
\* XML, or a report.xml holding a document.
Directories ==
  { [report |-> "absent", xml |-> NoDocument],
    [report |-> "unparseable", xml |-> NoDocument] }
    \cup {[report |-> "xml", xml |-> d] : d \in Documents}

EmptyDirectory == [report |-> "absent", xml |-> NoDocument]

-----------------------------------------------------------------------------
(* generate_summary_report *)

NoReportText == "Execution successful, but the report is not available."

AttributeError ==
  [type |-> "AttributeError", msg |-> "'NoneType' object has no attribute 'text'"]

\* xml.find(path)
Find(xml, path) == xml.fields[path]

\* Lines 102-120: the headings and the four metadata lines, appended in
\* order; xml.find(...).text raises AttributeError at the first element that
\* is not found, and nothing of that statement is appended.
RunSummary(xml) ==
  LET program == Find(xml, "creator/program")
      version == Find(xml, "creator/version")
      command_line == Find(xml, "creator/execution_environment/command_line")
      start_time == Find(xml, "creator/execution_environment/start_time")
      elapsed == Find(xml, "report/elapsed_seconds")
      f0 == << heading4("Bulk Extractor Results"), heading5("Run Summary") >>
      f1 == Append(f0, bullet("Program: " \o Str(program.text) \o " - "
                                \o Str(version.text)))
      f2 == Append(f1, bullet("Command Line: " \o Str(command_line.text)))
      f3 == Append(f2, bullet("Start Time: " \o Str(start_time.text)))
      f4 == Append(f3, bullet("Elapsed Time: " \o Str(elapsed.text)))
      Stop(f) == [findings |-> f, raised |-> AttributeError]
  IN  IF ~program.found \/ ~version.found THEN Stop(f0)
      ELSE IF ~command_line.found THEN Stop(f1)
      ELSE IF ~start_time.found THEN Stop(f2)
      ELSE IF ~elapsed.found THEN Stop(f3)
      ELSE [findings |-> f4, raised |-> NoException]

\* The count assigned to features_count, in place of added to it.
FeatureFile_Overwrite(name, count, findings, features_count) ==
  LET appended ==
        Append(findings, bullet(Str(name.text) \o ":" \o Str(count.text)))
  IN  IF count.text = NoText
        THEN [findings |-> appended, features_count |-> features_count,
              raised |-> [type |-> "TypeError", msg |-> "int() argument"]]
      ELSE IF ~IsInt(count.text)
        THEN [findings |-> appended, features_count |-> features_count,
              raised |-> [type |-> "ValueError", msg |-> "invalid literal for int()"]]
      ELSE [findings |-> appended,
            features_count |-> ParseInt(count.text),
            raised |-> NoException]

\* Lines 129-132: the two elements after a feature_file marker are taken as
\* its name and its count.
FeatureFile(name, count, findings, features_count) ==
  LET appended ==
        Append(findings, bullet(Str(name.text) \o ":" \o Str(count.text)))
  IN  IF count.text = NoText
        THEN [findings |-> appended, features_count |-> features_count,
              raised |-> [type |-> "TypeError", msg |-> "int() argument"]]
      ELSE IF ~IsInt(count.text)
        THEN [findings |-> appended, features_count |-> features_count,
              raised |-> [type |-> "ValueError", msg |-> "invalid literal for int()"]]
      ELSE [findings |-> appended,
            features_count |-> features_count + ParseInt(count.text),
            raised |-> NoException]

RECURSIVE FeatureLoop(_, _, _, _)
\* Lines 127-132: for f in feature_iter, the body's next(feature_iter) calls
\* advancing the same iterator; i is the position of the iterator.
FeatureLoop(feature_iter, i, findings, features_count) ==
  IF i > Len(feature_iter)
    THEN [findings |-> findings, features_count |-> features_count,
          raised |-> NoException]
  ELSE IF feature_iter[i].tag = "feature_file"
    THEN IF i + 2 > Len(feature_iter)
           THEN [findings |-> findings, features_count |-> features_count,
                 raised |-> [type |-> "StopIteration", msg |-> ""]]
         ELSE LET r == FeatureFile(feature_iter[i + 1], feature_iter[i + 2],
                                   findings, features_count)
              IN  IF r.raised # NoException THEN r
                  ELSE FeatureLoop(feature_iter, i + 3, r.findings, r.features_count)
  ELSE FeatureLoop(feature_iter, i + 1, findings, features_count)

\* An empty section taken for an absent one.
ScannerResults_EmptyAsAbsent(xml, findings) ==
  LET feature_files == xml.feature_files
  IN  IF feature_files.found /\ feature_files.elems # <<>>
        THEN FeatureLoop(
               <<[tag |-> "feature_files", text |-> NoText]>> \o feature_files.elems,
               1, Append(findings, heading5("Scanner Results")), 0)
      ELSE [findings |-> Append(findings, heading5("There are no findings to report.")),
            features_count |-> 0, raised |-> NoException]

\* Lines 123-134.
ScannerResults(xml, findings) ==
  LET feature_files == xml.feature_files
  IN  IF feature_files.found
        THEN FeatureLoop(
               <<[tag |-> "feature_files", text |-> NoText]>> \o feature_files.elems,
               1, Append(findings, heading5("Scanner Results")), 0)
      ELSE [findings |-> Append(findings, heading5("There are no findings to report.")),
            features_count |-> 0, raised |-> NoException]

\* The handler placed around each metadata statement: the scanner results
\* are read after a missing field.
Extract_ContinueAfterMissing(xml) ==
  LET meta == RunSummary(xml)
      scan == ScannerResults(xml, meta.findings)
  IN  [findings |-> scan.findings, features_count |-> scan.features_count,
       raised |-> scan.raised,
       warnings |-> IF meta.raised = AttributeError
                      THEN << "Error parsing feature from Bulk Extractor report: "
                                \o meta.raised.msg >>
                    ELSE <<>>]

\* Lines 100-138: the try block and its AttributeError handler.
Extract(xml) ==
  LET meta == RunSummary(xml)
      scan == ScannerResults(xml, meta.findings)
  IN  IF meta.raised = AttributeError
        THEN [findings |-> meta.findings, features_count |-> 0,
              raised |-> NoException,
              warnings |-> << "Error parsing feature from Bulk Extractor report: "
                                \o meta.raised.msg >>]
      ELSE [findings |-> scan.findings, features_count |-> scan.features_count,
            raised |-> scan.raised, warnings |-> <<>>]

\* The placeholder returned as report only, the summary counting artifacts.
ReportNotAvailable_CountSummary ==
  [raised |-> NoException, xml_parsed |-> FALSE, findings |-> <<>>,
   report |-> NoReportText, summary |-> "0 artifacts have been extracted.",
   warnings |-> <<>>]

\* Lines 91-93.
ReportNotAvailable ==
  [raised |-> NoException, xml_parsed |-> FALSE, findings |-> <<>>,
   report |-> NoReportText, summary |-> NoReportText, warnings |-> <<>>]

\* Lines 139-141.
Render(findings, features_count, warnings) ==
  [raised |-> NoException, xml_parsed |-> TRUE, findings |-> findings,
   report |-> JoinLines(findings),
   summary |-> ToString(features_count) \o " artifacts have been extracted.",
   warnings |-> warnings]

\* An exception leaving generate_summary_report: nothing is returned.
Raise(exception, xml_parsed) ==
  [raised |-> exception, xml_parsed |-> xml_parsed, findings |-> <<>>,
   report |-> None, summary |-> None, warnings |-> <<>>]

\* generate_summary_report(output_file_path), directory being what
\* output_file_path holds.
GenerateSummaryReport(directory) ==
  IF directory.report = "absent" THEN ReportNotAvailable
  ELSE IF directory.report = "unparseable"
    THEN Raise([type |-> "ParseError", msg |-> "syntax error"], TRUE)
  ELSE LET e == Extract(directory.xml)
       IN  IF e.raised # NoException THEN Raise(e.raised, TRUE)
           ELSE Render(e.findings, e.features_count, e.warnings)

-----------------------------------------------------------------------------
(* run(evidence, result) *)

VARIABLES
  pc,             \* the statement run is at
  evidence,       \* evidence.local_path, the input
  output_dir,     \* self.output_dir
  local_path,     \* output_evidence.local_path
  text_data,      \* output_evidence.text_data
  directory,      \* what the tool left at output_file_path
  report,         \* run's local: report
  summary,        \* run's local: summary
  findings,       \* the list generate_summary_report joined into report
  report_data,    \* result.report_data
  result_log,     \* the messages given to result.log
  closes,         \* the calls of result.close, in order: [success, status]
  exception,      \* the exception in flight, or the one run handled last
  log_warnings,   \* the messages given to log.warning
  returned,       \* whether run has returned result
  events          \* the calls made and their outcomes, in order

vars ==
  << pc, evidence, output_dir, local_path, text_data, directory, report,
     summary, findings, report_data, result_log, closes, exception,
     log_warnings, returned, events >>

\* evidence.local_path of the evidence handed to run.
EvidencePaths == { <<"evidence", "disk.img">>, <<"image.dd">> }

\* self.output_dir of the task.
OutputDir == <<"tmp", "output">>

\* Messages of the TurbiniaException raised by self.execute and by compress.
ExecuteMessages == { "Execution failed.", "bulk_extractor failed with exit code 1" }
CompressMessages == { "Compression failed." }

TurbiniaException(msg) == [type |-> "TurbiniaException", msg |-> msg]

\* str(exception)
StrException(e) == e.msg

Init ==
  /\ pc = "start"
  /\ evidence \in EvidencePaths
  /\ output_dir = OutputDir
  /\ local_path = NoPath
  /\ text_data = None
  /\ directory = EmptyDirectory
  /\ report = None
  /\ summary = None
  /\ findings = <<>>
  /\ report_data = None
  /\ result_log = <<>>
  /\ closes = <<>>
  /\ exception = NoException
  /\ log_warnings = <<>>
  /\ returned = FALSE
  /\ events = <<>>

\* Line 53 left out: the output evidence keeps no path.
CreateOutputEvidence_NoPath ==
  /\ pc = "start"
  /\ pc' = "execute"
  /\ UNCHANGED << evidence, output_dir, local_path, text_data, directory,
                  report, summary, findings, report_data, result_log, closes,
                  exception, log_warnings, returned, events >>

\* Lines 47-53: the output evidence and its path.
CreateOutputEvidence ==
  /\ pc = "start"
  /\ local_path' = PathJoin(output_dir, Basename(evidence))
  /\ events' = Append(events, "local_path")
  /\ pc' = "execute"
  /\ UNCHANGED << evidence, output_dir, text_data, directory, report, summary,
                  findings, report_data, result_log, closes, exception, log_warnings,
                  returned >>

\* Lines 57-60: the command is logged and self.execute starts the tool, on
\* the path kept in the local output_file_path.
Execute ==
  /\ pc = "execute"
  /\ result_log' = Append(result_log,
       [text |-> "Running Bulk Extractor as",
        cmd |-> [program |-> "bulk_extractor", input |-> evidence,
                 o |-> local_path]])
  /\ events' = Append(events, "execute")
  /\ pc' = "executing"
  /\ UNCHANGED << evidence, output_dir, local_path, text_data, directory,
                  report, summary, findings, report_data, closes, exception,
                  log_warnings, returned >>

\* Line 60: self.execute returns; the tool has exited and has left, at
\* output_file_path, whatever it wrote.
ExecuteReturns ==
  /\ pc = "executing"
  /\ directory' \in Directories
  /\ events' = Append(events, "execute returned")
  /\ pc' = "generate"
  /\ UNCHANGED << evidence, output_dir, local_path, text_data, report, summary,
                  findings, report_data, result_log, closes, exception, log_warnings,
                  returned >>

\* The exception of self.execute swallowed: run goes on to the report.
ExecuteRaises_Swallowed ==
  /\ pc = "executing"
  /\ \E msg \in ExecuteMessages : exception' = TurbiniaException(msg)
  /\ events' = Append(events, "execute raised")
  /\ pc' = "generate"
  /\ UNCHANGED << evidence, output_dir, local_path, text_data, directory,
                  report, summary, findings, report_data, result_log, closes,
                  log_warnings, returned >>

\* Line 60: self.execute raises TurbiniaException.
ExecuteRaises ==
  /\ pc = "executing"
  /\ \E msg \in ExecuteMessages : exception' = TurbiniaException(msg)
  /\ events' = Append(events, "execute raised")
  /\ pc' = "except"
  /\ UNCHANGED << evidence, output_dir, local_path, text_data, directory,
                  report, summary, findings, report_data, result_log, closes,
                  log_warnings, returned >>

\* Line 63: generate_summary_report returns a pair, or raises an exception
\* that is no TurbiniaException, which leaves run.
GenerateReport ==
  /\ pc = "generate"
  /\ LET r == GenerateSummaryReport(directory)
     IN  /\ log_warnings' = log_warnings \o r.warnings
         /\ IF r.raised = NoException
              THEN /\ report' = r.report
                   /\ summary' = r.summary
                   /\ findings' = r.findings
                   /\ events' = events \o
                        (IF r.xml_parsed THEN <<"generate", "xml parse">>
                         ELSE <<"generate">>) \o <<"generate returned">>
                   /\ pc' = "attach"
                   /\ UNCHANGED exception
            ELSE /\ exception' = r.raised
                 /\ events' = events \o
                      <<"generate", "xml parse", "generate raised">>
                 /\ pc' = IF r.raised.type = "TurbiniaException"
                          THEN "except" ELSE "raised"
                 /\ UNCHANGED << report, summary, findings >>
  /\ UNCHANGED << evidence, output_dir, local_path, text_data, directory,
                  report_data, result_log, closes, returned >>

\* Lines 64-65.
AttachReport ==
  /\ pc = "attach"
  /\ text_data' = report
  /\ report_data' = text_data'
  /\ events' = Append(events, "attach")
  /\ pc' = "compress"
  /\ UNCHANGED << evidence, output_dir, local_path, directory, report, summary,
                  findings, result_log, closes, exception, log_warnings, returned >>

\* Line 68: output_evidence.compress() returns.
CompressReturns ==
  /\ pc = "compress"
  /\ events' = events \o <<"compress", "compress returned">>
  /\ pc' = "close"
  /\ UNCHANGED << evidence, output_dir, local_path, text_data, directory,
                  report, summary, findings, report_data, result_log, closes, exception,
                  log_warnings, returned >>

\* Lines 68 and 69 in the other order: the result is closed, then compress
\* raises.
CompressRaises_AfterClose ==
  /\ pc = "compress"
  /\ closes' = Append(closes, [success |-> TRUE, status |-> summary])
  /\ \E msg \in CompressMessages : exception' = TurbiniaException(msg)
  /\ events' = events \o <<"close", "compress", "compress raised">>
  /\ pc' = "except"
  /\ UNCHANGED << evidence, output_dir, local_path, text_data, directory,
                  report, summary, findings, report_data, result_log,
                  log_warnings, returned >>

\* Line 68: output_evidence.compress() raises TurbiniaException.
CompressRaises ==
  /\ pc = "compress"
  /\ \E msg \in CompressMessages : exception' = TurbiniaException(msg)
  /\ events' = events \o <<"compress", "compress raised">>
  /\ pc' = "except"
  /\ UNCHANGED << evidence, output_dir, local_path, text_data, directory,
                  report, summary, findings, report_data, result_log, closes,
                  log_warnings, returned >>

\* The report given as status, in place of the summary.
CloseSuccess_ReportAsStatus ==
  /\ pc = "close"
  /\ closes' = Append(closes, [success |-> TRUE, status |-> report])
  /\ events' = Append(events, "close")
  /\ pc' = "return"
  /\ UNCHANGED << evidence, output_dir, local_path, text_data, directory,
                  report, summary, findings, report_data, result_log,
                  exception, log_warnings, returned >>

\* Line 69.
CloseSuccess ==
  /\ pc = "close"
  /\ closes' = Append(closes, [success |-> TRUE, status |-> summary])
  /\ events' = Append(events, "close")
  /\ pc' = "return"
  /\ UNCHANGED << evidence, output_dir, local_path, text_data, directory,
                  report, summary, findings, report_data, result_log, exception,
                  log_warnings, returned >>

\* Lines 70-71.
CloseFailure ==
  /\ pc = "except"
  /\ closes' = Append(closes, [success |-> FALSE, status |-> StrException(exception)])
  /\ events' = Append(events, "close")
  /\ pc' = "return"
  /\ UNCHANGED << evidence, output_dir, local_path, text_data, directory,
                  report, summary, findings, report_data, result_log, exception,
                  log_warnings, returned >>

\* Lines 72-73.
Return ==
  /\ pc = "return"
  /\ returned' = TRUE
  /\ events' = Append(events, "return")
  /\ pc' = "done"
  /\ UNCHANGED << evidence, output_dir, local_path, text_data, directory,
                  report, summary, findings, report_data, result_log, closes, exception,
                  log_warnings >>

Next ==
  \/ CreateOutputEvidence
  \/ Execute
  \/ ExecuteReturns
  \/ ExecuteRaises
  \/ GenerateReport
  \/ AttachReport
  \/ CompressReturns
  \/ CompressRaises
  \/ CloseSuccess
  \/ CloseFailure
  \/ Return

Spec == Init /\ [][Next]_vars

\* run is over: it has returned, or an exception has left it.
Finished == pc \in {"done", "raised"}

-----------------------------------------------------------------------------
(* Vocabulary of the properties *)

Happened(e) == \E i \in 1..Len(events) : events[i] = e

\* Every b comes after some a.
OnlyAfter(a, b) ==
  \A j \in 1..Len(events) :
    events[j] = b => \E i \in 1..(j - 1) : events[i] = a

\* No b comes before an a.
NeverBefore(b, a) ==
  \A i, j \in 1..Len(events) : events[i] = b /\ events[j] = a => j < i

Lines(list) == {list[i] : i \in 1..Len(list)}

IsPrefix(p, q) == Len(p) <= Len(q) /\ \A i \in 1..Len(p) : p[i] = q[i]

ZeroSummary == "0 artifacts have been extracted."
NoFindingsLine == heading5("There are no findings to report.")
ScannerHeading == heading5("Scanner Results")

\* The lines a report with all its metadata starts with.
FullHeader ==
  << heading4("Bulk Extractor Results"),
     heading5("Run Summary"),
     bullet("Program: BULK_EXTRACTOR - 1.6.0"),
     bullet("Command Line: bulk_extractor in -o out"),
     bullet("Start Time: 2020-01-01T00:00:00Z"),
     bullet("Elapsed Time: 42") >>

\* The texts of the modelled elements, as they are to appear in a line.
Shown(t) ==
  IF t = <<"email">> THEN "email"
  ELSE IF t = <<"url">> THEN "url"
  ELSE IF t = <<"5">> THEN "5"
  ELSE IF t = <<"1", "0">> THEN "10"
  ELSE IF t = <<"x">> THEN "x"
  ELSE "None"

\* The counts of the modelled elements that are decimal integers.
ExpectedCount(t) == CASE t = <<"5">> -> 5 [] t = <<"1", "0">> -> 10

\* Every line a (name, count) pair of the modelled elements can give.
ScannerBullets ==
  LET texts == {e.text : e \in ElemAlphabet}
  IN  {bullet(Shown(n) \o ":" \o Shown(c)) : n \in texts, c \in texts}

HasReport == directory.report = "xml"
Elems == directory.xml.feature_files.elems
SectionFound == directory.xml.feature_files.found
Found(path) == directory.xml.fields[path].found
AllMetadata == \A p \in MetaPaths : Found(p)

\* generate_summary_report was called (and, the call being one step, is over).
Called == Happened("generate")
Generated == Happened("generate returned")

-----------------------------------------------------------------------------
(* Properties of run *)

\* C1: in every execution of run, whatever the tool, generate_summary_report
\* and compress do, result.close is called exactly once: never twice, and
\* once by the time run is over.
C1_ClosedExactlyOnce ==
  /\ Len(closes) <= 1
  /\ Finished => Len(closes) = 1

\* C2: when self.execute raises a TurbiniaException, generate_summary_report
\* is never called, neither text_data nor report_data is assigned, compress
\* is not called, the result is closed with success = false and the
\* exception's message as status, and run returns the result.
C2_ExecutionFailureIsolation ==
  Happened("execute raised") =>
    /\ ~Happened("generate") /\ ~Happened("xml parse")
    /\ ~Happened("compress") /\ ~Happened("attach")
    /\ text_data = None /\ report_data = None
    /\ exception.msg \in ExecuteMessages
    /\ pc \in {"except", "return", "done"}
    /\ pc # "except" =>
         closes = << [success |-> FALSE, status |-> exception.msg] >>
    /\ pc = "done" <=> returned

C2_Witness ==
  /\ Happened("execute raised")
  /\ pc = "done"
  /\ returned
  /\ closes = << [success |-> FALSE,
                  status |-> "bulk_extractor failed with exit code 1"] >>

\* C3: when the tool invocation succeeds, generate_summary_report returns
\* (reportText, summaryText) and compress succeeds, then once the result is
\* closed text_data and report_data are reportText, compress has been called
\* once, and the one close carries success = true and status = summaryText.
C3_SuccessfulRun ==
  ( /\ Happened("execute returned")
    /\ Happened("generate returned")
    /\ Happened("compress returned")
    /\ closes # <<>> ) =>
    LET r == GenerateSummaryReport(directory)
    IN  /\ text_data = r.report
        /\ report_data = r.report
        /\ Cardinality({i \in 1..Len(events) : events[i] = "compress"}) = 1
        /\ closes = << [success |-> TRUE, status |-> r.summary] >>

C3_Witness ==
  /\ pc = "return"
  /\ Happened("compress returned")
  /\ HasReport /\ AllMetadata /\ SectionFound
  /\ closes = << [success |-> TRUE,
                  status |-> "15 artifacts have been extracted."] >>
  /\ report_data = text_data
  /\ report_data # None

\* C9: local_path is assigned before the tool is invoked;
\* generate_summary_report, and with it the read of report.xml, starts only
\* after the invocation has returned without raising; the report is attached
\* before compress; compress comes before the close. No parse is attempted
\* while local_path is unset or while the invocation has not completed.
C9_Ordering ==
  /\ OnlyAfter("local_path", "execute")
  /\ OnlyAfter("execute returned", "generate")
  /\ OnlyAfter("generate", "xml parse")
  /\ OnlyAfter("attach", "compress")
  /\ NeverBefore("close", "compress")
  /\ Happened("execute") => local_path # NoPath
  /\ Happened("generate") => local_path # NoPath
  /\ Happened("compress") => text_data = report /\ report_data = report
                                /\ report # None
  /\ pc \in {"start", "execute", "executing"} =>
       ~Happened("generate") /\ ~Happened("xml parse")
  /\ Happened("execute raised") => ~Happened("generate")

C9_Witness ==
  /\ pc = "done"
  /\ events = << "local_path", "execute", "execute returned", "generate",
                 "xml parse", "generate returned", "attach", "compress",
                 "compress returned", "close", "return" >>
  /\ local_path = << "tmp", "output", "disk.img" >>

\* C10: when the tool invocation and the parse succeed but compress raises a
\* TurbiniaException, the result is closed exactly once, with success = false
\* and that exception's message as status, never with success = true, and at
\* that close report_data and text_data hold the rendered report. A close
\* with success = true comes only after execute, generate_summary_report and
\* compress have all completed without raising.
C10_CompressFailure ==
  /\ Happened("compress raised") =>
       /\ Len(closes) <= 1
       /\ \A i \in 1..Len(closes) :
            /\ closes[i] = [success |-> FALSE, status |-> exception.msg]
            /\ exception.msg \in CompressMessages
            /\ report_data = GenerateSummaryReport(directory).report
            /\ text_data = report_data
            /\ report_data # None
       /\ pc # "raised"
       /\ Finished => Len(closes) = 1
  /\ \A i \in 1..Len(closes) :
       closes[i].success =>
         /\ Happened("execute returned") /\ ~Happened("execute raised")
         /\ Happened("generate returned") /\ ~Happened("generate raised")
         /\ Happened("compress returned") /\ ~Happened("compress raised")

C10_Witness ==
  /\ Happened("compress raised")
  /\ pc = "done"
  /\ HasReport
  /\ closes = << [success |-> FALSE, status |-> "Compression failed."] >>
  /\ report_data = report
  /\ report # None

-----------------------------------------------------------------------------
(* Properties of generate_summary_report *)

\* The section is N whole records: marker, name, count with an integer text.
IsWellFormed(elems) ==
  /\ Len(elems) % 3 = 0
  /\ \A k \in 0..((Len(elems) \div 3) - 1) :
       /\ elems[3 * k + 1].tag = "feature_file"
       /\ elems[3 * k + 2].tag = "name"
       /\ elems[3 * k + 3].tag = "count"
       /\ elems[3 * k + 3].text \in {<<"5">>, <<"1", "0">>}

RecordCount(elems) == Len(elems) \div 3

RECURSIVE CountSum(_, _)
\* c1 + ... + cn of the first n records.
CountSum(elems, n) ==
  IF n = 0 THEN 0
  ELSE CountSum(elems, n - 1) + ExpectedCount(elems[3 * n].text)

\* The n lines "name_i:c_i", in document order.
RecordBullets(elems, n) ==
  [k \in 1..n |->
     bullet(Shown(elems[3 * k - 1].text) \o ":" \o Shown(elems[3 * k].text))]

\* Some feature_file marker is not followed by a name and then a count.
IncompleteMarker(elems) ==
  \E i \in 1..Len(elems) :
    /\ elems[i].tag = "feature_file"
    /\ ~ ( /\ i + 2 <= Len(elems)
           /\ elems[i + 1].tag = "name"
           /\ elems[i + 2].tag = "count" )

\* C4, as stated: for a report with all five metadata fields whose
\* feature_files section is absent, or present but empty, the summary is
\* "0 artifacts have been extracted." and the report contains the
\* "There are no findings to report." line and no scanner bullet line.
C4_NoScannersAsStated ==
  ( /\ Called /\ HasReport /\ AllMetadata
    /\ ~SectionFound \/ Elems = <<>> ) =>
    /\ Generated
    /\ summary = ZeroSummary
    /\ report = JoinLines(findings)
    /\ NoFindingsLine \in Lines(findings)
    /\ Lines(findings) \cap ScannerBullets = {}

\* C4, amended: with the section absent the summary is
\* "0 artifacts have been extracted." and the report is the run summary
\* followed by the "There are no findings to report." line, without scanner
\* bullet lines; with the section present but empty the summary is the same
\* and there are no scanner bullet lines either, but the report ends with the
\* 'Scanner Results' heading and has no "There are no findings to report."
\* line.
C4_NoScanners ==
  ( /\ Called /\ HasReport /\ AllMetadata
    /\ ~SectionFound \/ Elems = <<>> ) =>
    /\ Generated
    /\ summary = ZeroSummary
    /\ report = JoinLines(findings)
    /\ Lines(findings) \cap ScannerBullets = {}
    /\ ~SectionFound =>
         /\ findings = Append(FullHeader, NoFindingsLine)
         /\ ScannerHeading \notin Lines(findings)
    /\ SectionFound =>
         /\ findings = Append(FullHeader, ScannerHeading)
         /\ NoFindingsLine \notin Lines(findings)

C4_Witness ==
  /\ Generated /\ HasReport /\ AllMetadata
  /\ SectionFound /\ Elems = <<>>
  /\ summary = "0 artifacts have been extracted."
  /\ findings[Len(findings)] = "##### Scanner Results"

\* C5: for a report with all metadata whose section holds N >= 0 well-formed
\* (feature_file, name, count) records with integer counts c1..cN, the
\* summary is "{c1+...+cN} artifacts have been extracted." and the report has,
\* after the 'Scanner Results' heading, exactly the N lines "name_i:c_i" in
\* document order.
C5_CountConservation ==
  ( /\ Called /\ HasReport /\ AllMetadata
    /\ SectionFound /\ IsWellFormed(Elems) ) =>
    LET n == RecordCount(Elems)
    IN  /\ Generated
        /\ summary = ToString(CountSum(Elems, n))
                       \o " artifacts have been extracted."
        /\ findings = FullHeader \o <<ScannerHeading>> \o RecordBullets(Elems, n)
        /\ report = JoinLines(findings)
        /\ Cardinality({i \in 1..Len(findings) :
                          findings[i] \in ScannerBullets}) = n
        /\ log_warnings = <<>>

C5_Witness ==
  /\ Generated /\ HasReport /\ AllMetadata /\ SectionFound
  /\ RecordCount(Elems) = 3 /\ IsWellFormed(Elems)
  /\ summary = "25 artifacts have been extracted."
  /\ report = "#### Bulk Extractor Results\n##### Run Summary\n"
           \o "* Program: BULK_EXTRACTOR - 1.6.0\n"
           \o "* Command Line: bulk_extractor in -o out\n"
           \o "* Start Time: 2020-01-01T00:00:00Z\n"
           \o "* Elapsed Time: 42\n"
           \o "##### Scanner Results\n"
           \o "* url:10\n* email:5\n* email:10"

\* C6: for a report.xml that parses, if a metadata field is missing, or a
\* feature_file marker is not followed by a name and a count element,
\* generate_summary_report does not raise: the findings appended so far are
\* returned, a diagnostic is logged, and the task closes as successful.
C6_TolerantExtraction ==
  ( /\ Called /\ HasReport
    /\ ~AllMetadata \/ (SectionFound /\ IncompleteMarker(Elems)) ) =>
    /\ Generated
    /\ pc # "raised"
    /\ Len(log_warnings) >= 1
    /\ report = JoinLines(findings)
    /\ ~AllMetadata => IsPrefix(findings, FullHeader)
    /\ AllMetadata => IsPrefix(Append(FullHeader, ScannerHeading), findings)
    /\ Finished /\ Happened("compress returned") =>
         closes = << [success |-> TRUE, status |-> summary] >>

\* C7: with program, version, command line and start time present and
\* report/elapsed_seconds missing, generate_summary_report does not raise;
\* the report is the two headings and the Program, Command Line and Start Time
\* lines, without Elapsed Time line, scanner heading or scanner bullets, also
\* when a well-formed section is present; the summary is
\* "0 artifacts have been extracted."; one warning is logged.
C7_ElapsedMissing ==
  ( /\ Called /\ HasReport
    /\ Found("creator/program") /\ Found("creator/version")
    /\ Found("creator/execution_environment/command_line")
    /\ Found("creator/execution_environment/start_time")
    /\ ~Found("report/elapsed_seconds") ) =>
    /\ Generated
    /\ pc # "raised"
    /\ findings = SubSeq(FullHeader, 1, 5)
    /\ report = JoinLines(findings)
    /\ bullet("Elapsed Time: 42") \notin Lines(findings)
    /\ ScannerHeading \notin Lines(findings)
    /\ NoFindingsLine \notin Lines(findings)
    /\ Lines(findings) \cap ScannerBullets = {}
    /\ summary = ZeroSummary
    /\ Len(log_warnings) = 1

C7_Witness ==
  /\ Generated /\ HasReport
  /\ ~Found("report/elapsed_seconds")
  /\ SectionFound /\ IsWellFormed(Elems) /\ RecordCount(Elems) = 1
  /\ summary = "0 artifacts have been extracted."
  /\ report = "#### Bulk Extractor Results\n##### Run Summary\n"
           \o "* Program: BULK_EXTRACTOR - 1.6.0\n"
           \o "* Command Line: bulk_extractor in -o out\n"
           \o "* Start Time: 2020-01-01T00:00:00Z"
  /\ log_warnings = << "Error parsing feature from Bulk Extractor report: "
                         \o "'NoneType' object has no attribute 'text'" >>

\* C8, as stated: with no report.xml in the output directory
\* generate_summary_report returns (S, S), S being "Execution successful, but
\* the report is not available.", attempts no XML parse and logs nothing, so
\* that a run whose tool invocation succeeded closes as successful with
\* report_data and status equal to S.
C8_NoReportAsStated ==
  ( Called /\ directory.report = "absent" ) =>
    /\ Generated
    /\ report = "Execution successful, but the report is not available."
    /\ summary = report
    /\ ~Happened("xml parse")
    /\ log_warnings = <<>>
    /\ Happened("execute returned")
    /\ closes # <<>> =>
         /\ closes = << [success |-> TRUE, status |-> report] >>
         /\ report_data = report

\* C8, amended: the same, the run closing as successful with report_data and
\* status equal to S when its tool invocation and compress both succeeded.
C8_NoReport ==
  ( Called /\ directory.report = "absent" ) =>
    /\ Generated
    /\ report = "Execution successful, but the report is not available."
    /\ summary = report
    /\ ~Happened("xml parse")
    /\ log_warnings = <<>>
    /\ Happened("execute returned")
    /\ closes # <<>> /\ Happened("compress returned") =>
         /\ closes = << [success |-> TRUE, status |-> report] >>
         /\ report_data = report

C8_Witness ==
  /\ pc = "done"
  /\ directory.report = "absent"
  /\ Happened("generate returned") /\ Happened("compress returned")
  /\ report_data = "Execution successful, but the report is not available."
  /\ closes = << [success |-> TRUE, status |-> report_data] >>

====
